---- MODULE Spec2Model ----
(***************************************************************************)
(* Fedora Tagger backend library (taggerapi/taggerlib/__init__.py).        *)
(*                                                                         *)
(* The database is a record of tables; every table is a sequence of rows   *)
(* and a row's id is its position (autoincrement primary key).  The four   *)
(* operations add_tag, add_rating, add_vote and statistics are operators   *)
(* from a database to a database and a return value.  Spec runs them one   *)
(* at a time; SpecConc runs add_tag and add_vote in two sessions whose     *)
(* loads and flushes interleave.                                           *)
(***************************************************************************)
EXTENDS Integers, Sequences, FiniteSets

VARIABLES db,      \* the relational store: package, user, tag, vote, rating
          ret,     \* what the last call returned or raised (Spec)
          sess     \* per session: the call in progress and its loaded objects (SpecConc)

vars == <<db, ret, sess>>

(* ------------------------------ bounds -------------------------------- *)
MaxVotes == 3      \* vote rows the store may hold
MaxRatings == 2    \* rating rows the store may hold
MaxContactRows == 2    \* vote and rating rows the store may hold in SpecContact

PkgNames == {"mattd", "guake"}
Addrs == {"10.0.0.1", "10.0.0.2"}
Labels == {"daemon", "terminal"}
StatLabels == Labels \cup {"network"}
RatingValues == {1, 5}

(* ------------------------------ the store ----------------------------- *)
\* createdb.py gives "mattd" the id 1; other provisioned packages follow.
PkgId(name) == IF name = "mattd" THEN 1 ELSE 2

Package(name) == [id |-> PkgId(name), name |-> name]

EmptyDb == [package |-> {}, user |-> <<>>, tag |-> <<>>, vote |-> <<>>, rating |-> <<>>]

\* Query.one(): the single matching row, NoResultFound or MultipleResultsFound.
One(rows) ==
    IF Cardinality(rows) = 1 THEN [status |-> "one", id |-> CHOOSE i \in rows : TRUE]
    ELSE IF rows = {} THEN [status |-> "NoResultFound", id |-> 0]
    ELSE [status |-> "MultipleResultsFound", id |-> 0]

\* model.Package.by_name
PackageByName(S, pkgname) ==
    LET found == {p \in S.package : p.name = pkgname}
    IN IF found = {} THEN [status |-> "NoResultFound", id |-> 0]
       ELSE [status |-> "one", id |-> (CHOOSE p \in found : TRUE).id]

\* get_or_create that never looks the address up
FASUserCreate_Always(users, ipaddress) == Append(users, ipaddress)

\* model.FASUser.get_or_create: the users table after the call
FASUserGetOrCreate(users, ipaddress) ==
    IF \E i \in DOMAIN users : users[i] = ipaddress THEN users
    ELSE Append(users, ipaddress)

UserId(users, ipaddress) == CHOOSE i \in DOMAIN users : users[i] = ipaddress

\* model.Tag.get
TagGet(S, package_id, label) ==
    One({i \in DOMAIN S.tag : S.tag[i].package_id = package_id /\ S.tag[i].label = label})

\* model.Vote.get
VoteGet(S, user_id, tag_id) ==
    One({i \in DOMAIN S.vote : S.vote[i].user_id = user_id /\ S.vote[i].tag_id = tag_id})

\* model.Tag(package_id=..., label=...): the column defaults of a new row
NewTag(package_id, label) ==
    [package_id |-> package_id, label |-> label, like |-> 1, dislike |-> 0]

\* model.Vote(user_id=..., tag_id=..., like=...)
NewVote(user_id, tag_id, like) == [user_id |-> user_id, tag_id |-> tag_id, like |-> like]

(* ------------------------------ add_tag ------------------------------- *)
\* TagVote recorded with the wrong polarity
TagVote_Dislike(user_id, tag_id) == NewVote(user_id, tag_id, FALSE)

\* line 58: the vote add_tag records for the requester
TagVote(user_id, tag_id) == NewVote(user_id, tag_id, TRUE)

add_tag(S, pkgname, tag, ipaddress) ==
    LET package == PackageByName(S, pkgname)
    IN IF package.status # "one" THEN [db |-> S, ret |-> package.status]
       ELSE
       LET users == FASUserGetOrCreate(S.user, ipaddress)
           uid == UserId(users, ipaddress)
           got == TagGet(S, package.id, tag)
           S1 == [S EXCEPT !.user = users]
       IN IF got.status = "one"
          THEN [db |-> [S1 EXCEPT !.tag[got.id].like = @ + 1,
                                  !.vote = Append(@, TagVote(uid, got.id))],
                ret |-> "Tag added"]
          ELSE IF got.status = "NoResultFound"
          THEN [db |-> [S1 EXCEPT !.tag = Append(@, NewTag(package.id, tag)),
                                  !.vote = Append(@, TagVote(uid, Len(S.tag) + 1))],
                ret |-> "Tag added"]
          ELSE [db |-> S1, ret |-> got.status]

(* ------------------------------ add_rating ---------------------------- *)
\* StoreRating that updates the requester's earlier rating of the package in place
StoreRating_Overwrite(ratings, ratingobj) ==
    LET same == {i \in DOMAIN ratings : /\ ratings[i].package_id = ratingobj.package_id
                                        /\ ratings[i].user_id = ratingobj.user_id}
    IN IF same = {} THEN Append(ratings, ratingobj)
       ELSE [i \in DOMAIN ratings |-> IF i \in same THEN ratingobj ELSE ratings[i]]

\* lines 70-71: session.add(ratingobj); session.flush()
StoreRating(ratings, ratingobj) == Append(ratings, ratingobj)

add_rating(S, pkgname, rating, ipaddress) ==
    LET package == PackageByName(S, pkgname)
    IN IF package.status # "one" THEN [db |-> S, ret |-> package.status]
       ELSE
       LET users == FASUserGetOrCreate(S.user, ipaddress)
           uid == UserId(users, ipaddress)
       IN [db |-> [S EXCEPT !.user = users,
                            !.rating = StoreRating(@, [package_id |-> package.id,
                                                       user_id |-> uid, rating |-> rating])],
           ret |-> "Rating added"]

(* ------------------------------ add_vote ------------------------------ *)
\* FlipCounters with the decrement of the old side forgotten
FlipCounters_NoDecrement(t, oldlike) ==
    IF oldlike THEN [t EXCEPT !.dislike = @ + 1] ELSE [t EXCEPT !.like = @ + 1]

\* lines 93-98: an existing vote changes side
FlipCounters(t, oldlike) ==
    IF oldlike THEN [t EXCEPT !.like = @ - 1, !.dislike = @ + 1]
    ELSE [t EXCEPT !.dislike = @ - 1, !.like = @ + 1]

\* lines 104-107: a first vote is counted
CountNewVote(t, vote) ==
    IF vote THEN [t EXCEPT !.like = @ + 1] ELSE [t EXCEPT !.dislike = @ + 1]

\* TagNotFound with the lookup failure swallowed: the vote is counted on no tag
TagNotFound_Swallowed(S) ==
    [db |-> [S EXCEPT !.vote = Append(@, NewVote(Len(S.user), 0, TRUE))], ret |-> "Vote added"]

\* lines 81-83: the lookup failed, the domain exception is raised
TagNotFound(S) == [db |-> S, ret |-> "TaggerapiException"]

add_vote(S, pkgname, tag, vote, ipaddress) ==
    LET users == FASUserGetOrCreate(S.user, ipaddress)
        uid == UserId(users, ipaddress)
        S1 == [S EXCEPT !.user = users]
        package == PackageByName(S, pkgname)
        tagobj == IF package.status = "one" THEN TagGet(S, package.id, tag) ELSE package
    IN IF tagobj.status # "one" THEN TagNotFound(S1)
       ELSE
       LET voteobj == VoteGet(S, uid, tagobj.id)
       IN IF voteobj.status = "one"
          THEN IF S.vote[voteobj.id].like = vote
               THEN [db |-> S1, ret |-> "Vote did not changed"]
               ELSE [db |-> [S1 EXCEPT
                               !.tag[tagobj.id] = FlipCounters(@, S.vote[voteobj.id].like),
                               !.vote[voteobj.id].like = vote],
                     ret |-> "Vote changed"]
          ELSE [db |-> [S1 EXCEPT
                          !.tag[tagobj.id] = CountNewVote(@, vote),
                          !.vote = Append(@, NewVote(uid, tagobj.id, vote))],
                ret |-> "Vote added"]

(* ------------------------------ statistics ---------------------------- *)
\* p.tags: the tag rows of package p
TagsOf(S, p) == {i \in DOMAIN S.tag : S.tag[i].package_id = p.id}

RECURSIVE SumTags(_, _)
SumTags(S, ps) ==
    IF ps = {} THEN 0
    ELSE LET p == CHOOSE q \in ps : TRUE
         IN Cardinality(TagsOf(S, p)) + SumTags(S, ps \ {p})

\* a / float(b), kept exact as the fraction a over b
Quotient(a, b) == [num |-> a, den |-> b]

\* WithTags that forgets to subtract the untagged packages
WithTags_AllPackages(n_packs, no_tags) == n_packs

\* line 126
WithTags(n_packs, no_tags) == n_packs - no_tags

statistics(S) ==
    LET packages == S.package
        n_tags == Cardinality({S.tag[i].label : i \in DOMAIN S.tag})
        raw_data == [n \in {p.name : p \in packages} |->
                        Cardinality(TagsOf(S, CHOOSE p \in packages : p.name = n))]
        n_packs == Cardinality(DOMAIN raw_data)
        no_tags == Cardinality({n \in DOMAIN raw_data : raw_data[n] = 0})
        with_tags == WithTags(n_packs, no_tags)
    IN [total_packages |-> n_packs,
        total_unique_tags |-> n_tags,
        no_tags |-> no_tags,
        with_tags |-> with_tags,
        tags_per_package |->
            IF n_packs # 0 THEN Quotient(SumTags(S, packages), n_packs)
            ELSE Quotient(0, 1),
        tags_per_package_no_zeroes |->
            IF with_tags # 0 THEN Quotient(SumTags(S, packages), with_tags)
            ELSE Quotient(0, 1)]

(* ------------------------------ sequential calls ---------------------- *)
Idle == [pc |-> "idle"]

Init ==
    /\ db = EmptyDb
    /\ ret = [msg |-> "none"]
    /\ sess = <<Idle, Idle>>

\* createdb.py --with-dev-data, and the external provisioning of packages
ProvisionPackage(name) ==
    /\ \A p \in db.package : p.name # name
    /\ db' = [db EXCEPT !.package = @ \cup {Package(name)}]
    /\ ret' = [msg |-> "none"]
    /\ UNCHANGED sess

AddTag(pkgname, tag, ipaddress) ==
    /\ Len(db.vote) < MaxVotes
    /\ LET r == add_tag(db, pkgname, tag, ipaddress)
       IN /\ db' = r.db
          /\ ret' = [msg |-> r.ret]
    /\ UNCHANGED sess

AddRating(pkgname, rating, ipaddress) ==
    /\ Len(db.rating) < MaxRatings
    /\ LET r == add_rating(db, pkgname, rating, ipaddress)
       IN /\ db' = r.db
          /\ ret' = [msg |-> r.ret]
    /\ UNCHANGED sess

AddVote(pkgname, tag, vote, ipaddress) ==
    /\ Len(db.vote) < MaxVotes
    /\ LET r == add_vote(db, pkgname, tag, vote, ipaddress)
       IN /\ db' = r.db
          /\ ret' = [msg |-> r.ret]
    /\ UNCHANGED sess

Statistics ==
    /\ ret' = [msg |-> "summary", summary |-> statistics(db)]
    /\ UNCHANGED <<db, sess>>

Next ==
    \/ \E name \in PkgNames : ProvisionPackage(name)
    \/ \E p \in PkgNames, l \in Labels, a \in Addrs : AddTag(p, l, a)
    \/ \E p \in PkgNames, l \in Labels, v \in BOOLEAN, a \in Addrs : AddVote(p, l, v, a)

Spec == Init /\ [][Next]_vars

NextStats ==
    \/ \E name \in PkgNames : ProvisionPackage(name)
    \/ \E p \in PkgNames, l \in StatLabels, a \in Addrs : AddTag(p, l, a)
    \/ Statistics

SpecStats == Init /\ [][NextStats]_vars

NextRating ==
    \/ \E name \in PkgNames : ProvisionPackage(name)
    \/ \E p \in PkgNames, r \in RatingValues, a \in Addrs : AddRating(p, r, a)

SpecRating == Init /\ [][NextRating]_vars

(* ------------------------------ concurrent sessions ------------------- *)
\* Each request runs in its own session.  A call first loads the objects it
\* needs and computes on them in memory (Load); session.flush() then writes
\* the new rows and, of each loaded row, the columns the call has changed, with
\* the values the session holds (Flush).  The user is stored by get_or_create
\* at load time.
Sessions == {1, 2}

\* the address session i serves in SpecConc
AddrOf(i) == IF i = 1 THEN "10.0.0.1" ELSE "10.0.0.2"

\* createdb.py --with-dev-data
DevDb == [EmptyDb EXCEPT !.package = {Package("mattd")}]

InitConc ==
    /\ db = DevDb
    /\ ret = [msg |-> "none"]
    /\ sess = <<Idle, Idle>>

Loaded(i) == sess[i].pc = "loaded"

\* rows the store may still take, counting what loaded sessions will insert;
\* no call starts once lost updates have driven a counter out of 0..MaxVotes
Room(rows, max) ==
    /\ Len(rows) + Cardinality({i \in Sessions : Loaded(i)}) < max
    /\ \A t \in DOMAIN db.tag : db.tag[t].like \in 0..MaxVotes /\ db.tag[t].dislike \in 0..MaxVotes

\* the call's outcome r on the loaded state db: an exception or an early return
\* ends the call, anything else waits for the flush
Begin(i, ipaddress, r) ==
    /\ db' = [db EXCEPT !.user = r.db.user]
    /\ sess' = [sess EXCEPT ![i] =
                  IF r.db.tag = db.tag /\ r.db.vote = db.vote /\ r.db.rating = db.rating
                  THEN Idle
                  ELSE [pc |-> "loaded", ipaddress |-> ipaddress,
                        base |-> db, result |-> r.db]]
    /\ UNCHANGED ret

LoadTag(i, pkgname, tag, ipaddress) ==
    /\ ~Loaded(i)
    /\ Room(db.vote, MaxVotes)
    /\ Begin(i, ipaddress, add_tag(db, pkgname, tag, ipaddress))

LoadVote(i, pkgname, tag, vote, ipaddress) ==
    /\ ~Loaded(i)
    /\ Room(db.vote, MaxVotes)
    /\ Begin(i, ipaddress, add_vote(db, pkgname, tag, vote, ipaddress))

LoadRating(i, pkgname, rating, ipaddress) ==
    /\ ~Loaded(i)
    /\ Room(db.rating, MaxRatings)
    /\ Begin(i, ipaddress, add_rating(db, pkgname, rating, ipaddress))

\* UPDATE tag SET <changed columns> = <session values> WHERE id = t
FlushTagRow(row, before, after) ==
    [row EXCEPT !.like = IF after.like # before.like THEN after.like ELSE @,
                !.dislike = IF after.dislike # before.dislike THEN after.dislike ELSE @]

\* session.flush(): the store D after the session's changes are written
FlushTo(D, base, result) ==
    LET nt == Len(base.tag)
        nv == Len(base.vote)
        nr == Len(base.rating)
        tags == [t \in DOMAIN D.tag |->
                    IF t <= nt THEN FlushTagRow(D.tag[t], base.tag[t], result.tag[t])
                    ELSE D.tag[t]]
        votes == [k \in DOMAIN D.vote |->
                    IF k <= nv /\ result.vote[k].like # base.vote[k].like
                    THEN [D.vote[k] EXCEPT !.like = result.vote[k].like]
                    ELSE D.vote[k]]
        newvotes == [k \in 1..(Len(result.vote) - nv) |->
                        LET v == result.vote[nv + k]
                        IN IF v.tag_id > nt
                           THEN [v EXCEPT !.tag_id = Len(D.tag) + (v.tag_id - nt)]
                           ELSE v]
    IN [D EXCEPT !.tag = tags \o SubSeq(result.tag, nt + 1, Len(result.tag)),
                 !.vote = votes \o newvotes,
                 !.rating = @ \o SubSeq(result.rating, nr + 1, Len(result.rating))]

Flush(i) ==
    /\ Loaded(i)
    /\ db' = FlushTo(db, sess[i].base, sess[i].result)
    /\ sess' = [sess EXCEPT ![i] = Idle]
    /\ UNCHANGED ret

\* two users, each in a session of their own, tag and vote on the dev package
NextConc ==
    \/ \E i \in Sessions, l \in Labels : LoadTag(i, "mattd", l, AddrOf(i))
    \/ \E i \in Sessions, l \in Labels, v \in BOOLEAN : LoadVote(i, "mattd", l, v, AddrOf(i))
    \/ \E i \in Sessions : Flush(i)

SpecConc == InitConc /\ [][NextConc]_vars

\* requests from any address arrive in either session
ContactRoom ==
    Len(db.vote) + Len(db.rating) + Cardinality({i \in Sessions : Loaded(i)}) < MaxContactRows

NextContact ==
    \/ \E i \in Sessions, a \in Addrs : ContactRoom /\ LoadTag(i, "mattd", "daemon", a)
    \/ \E i \in Sessions, v \in BOOLEAN, a \in Addrs :
            ContactRoom /\ LoadVote(i, "mattd", "daemon", v, a)
    \/ \E i \in Sessions, a \in Addrs : ContactRoom /\ LoadRating(i, "mattd", 5, a)
    \/ \E i \in Sessions : Flush(i)

SpecContact == InitConc /\ [][NextContact]_vars

(* ------------------------------ properties ---------------------------- *)
\* the Vote rows on tag t with the given polarity
VotesOn(S, t, like) ==
    Cardinality({i \in DOMAIN S.vote : S.vote[i].tag_id = t /\ S.vote[i].like = like})

\* the Vote rows of the user at ipaddress on the tag (pkgname, tag)
VotesOf(S, pkgname, tag, ipaddress) ==
    {i \in DOMAIN S.vote :
        /\ S.vote[i].user_id \in DOMAIN S.user
        /\ S.user[S.vote[i].user_id] = ipaddress
        /\ S.vote[i].tag_id \in DOMAIN S.tag
        /\ S.tag[S.vote[i].tag_id].package_id = PkgId(pkgname)
        /\ S.tag[S.vote[i].tag_id].label = tag}

HasPackage(S, pkgname) == \E p \in S.package : p.name = pkgname

HasTag(S, pkgname, tag) ==
    /\ HasPackage(S, pkgname)
    /\ \E t \in DOMAIN S.tag : S.tag[t].package_id = PkgId(pkgname) /\ S.tag[t].label = tag

\* C1: in every reachable state every Tag's like counter equals the number of
\* Vote rows on it with polarity like, and its dislike counter the number of
\* Vote rows on it with polarity dislike.
CountersMatchVotes ==
    \A t \in DOMAIN db.tag :
        /\ db.tag[t].like = VotesOn(db, t, TRUE)
        /\ db.tag[t].dislike = VotesOn(db, t, FALSE)

\* C1 witness: a vote has just changed side on a tag that holds votes of both sides
CountersMatchVotesWitness ==
    /\ ret.msg = "Vote changed"
    /\ \E t \in DOMAIN db.tag : db.tag[t].like >= 1 /\ db.tag[t].dislike >= 1

\* C2: there is at most one Vote row for every (user, tag) pair.
OneVotePerUserTag ==
    \A i, j \in DOMAIN db.vote :
        (db.vote[i].user_id = db.vote[j].user_id /\ db.vote[i].tag_id = db.vote[j].tag_id)
            => i = j

\* C3: add_tag on an existing package with a label it has no Tag for appends
\* exactly one Tag (like = 1, dislike = 0) and exactly one Vote, of polarity
\* like, by the requesting user on that Tag.
AddTagFresh ==
    [][\A p \in PkgNames, l \in Labels, a \in Addrs :
        (HasPackage(db, p) /\ ~HasTag(db, p, l) /\ AddTag(p, l, a)) =>
            /\ db'.tag = Append(db.tag, [package_id |-> PkgId(p), label |-> l,
                                         like |-> 1, dislike |-> 0])
            /\ Len(db'.vote) = Len(db.vote) + 1
            /\ SubSeq(db'.vote, 1, Len(db.vote)) = db.vote
            /\ LET v == db'.vote[Len(db'.vote)]
               IN v.like /\ v.tag_id = Len(db'.tag) /\ db'.user[v.user_id] = a
            /\ ret'.msg = "Tag added"]_vars

\* C3 witness: add_tag has just created the newest Tag, which holds its one Vote
AddTagFreshWitness ==
    /\ ret.msg = "Tag added"
    /\ db.tag # <<>>
    /\ db.tag[Len(db.tag)].like = 1
    /\ db.tag[Len(db.tag)].dislike = 0
    /\ db.vote[Len(db.vote)].tag_id = Len(db.tag)
    /\ VotesOn(db, Len(db.tag), TRUE) = 1

\* C4: add_vote by a user who has a Vote on the tag, with the polarity opposite
\* to it, moves one count from the old side to the new side, sets that Vote to
\* the new polarity, adds no Vote row and returns the "changed" message.
AddVoteFlips ==
    [][\A p \in PkgNames, l \in Labels, v \in BOOLEAN, a \in Addrs :
        (/\ AddVote(p, l, v, a)
         /\ VotesOf(db, p, l, a) # {}
         /\ \A i \in VotesOf(db, p, l, a) : db.vote[i].like # v) =>
            LET t == db.vote[CHOOSE i \in VotesOf(db, p, l, a) : TRUE].tag_id
            IN /\ ret'.msg = "Vote changed"
               /\ Len(db'.vote) = Len(db.vote)
               /\ \E i \in VotesOf(db, p, l, a) : db'.vote[i].like = v
               /\ db'.tag[t].like = db.tag[t].like + (IF v THEN 1 ELSE -1)
               /\ db'.tag[t].dislike = db.tag[t].dislike + (IF v THEN -1 ELSE 1)]_vars

\* C5: add_vote by a user whose Vote on the tag already has the requested
\* polarity changes no counter and no Vote row and returns the "did not
\* changed" message; and a successful add_vote repeated with the same arguments
\* leaves the store as the first call left it.
AddVoteIdempotent ==
    [][\A p \in PkgNames, l \in Labels, v \in BOOLEAN, a \in Addrs :
        /\ (/\ AddVote(p, l, v, a)
            /\ VotesOf(db, p, l, a) # {}
            /\ \A i \in VotesOf(db, p, l, a) : db.vote[i].like = v) =>
                /\ ret'.msg = "Vote did not changed"
                /\ db'.tag = db.tag
                /\ db'.vote = db.vote
        /\ (AddVote(p, l, v, a) /\ HasTag(db, p, l)) =>
                add_vote(db', p, l, v, a).db = db']_vars

\* Lemma: where the requester has exactly one Vote on the tag, add_vote with
\* the opposite polarity flips it as C4 says, and add_vote with the same
\* polarity changes nothing as C5 says.
AddVoteSingleVote ==
    [][\A p \in PkgNames, l \in Labels, v \in BOOLEAN, a \in Addrs :
        (Cardinality(VotesOf(db, p, l, a)) = 1 /\ AddVote(p, l, v, a)) =>
            LET i == CHOOSE k \in VotesOf(db, p, l, a) : TRUE
                t == db.vote[i].tag_id
            IN IF db.vote[i].like = v
               THEN /\ ret'.msg = "Vote did not changed"
                    /\ db'.tag = db.tag /\ db'.vote = db.vote
                    /\ add_vote(db', p, l, v, a).db = db'
               ELSE /\ ret'.msg = "Vote changed"
                    /\ db'.vote = [db.vote EXCEPT ![i].like = v]
                    /\ db'.tag[t].like = db.tag[t].like + (IF v THEN 1 ELSE -1)
                    /\ db'.tag[t].dislike = db.tag[t].dislike + (IF v THEN -1 ELSE 1)]_vars

\* C6: add_vote naming a package that does not exist, or a label the package
\* has no Tag for, raises TaggerapiException and leaves every table but the
\* users unchanged; the users table gains at most the requester.
AddVoteNotFound ==
    [][\A p \in PkgNames, l \in Labels, v \in BOOLEAN, a \in Addrs :
        (~HasTag(db, p, l) /\ AddVote(p, l, v, a)) =>
            /\ ret'.msg = "TaggerapiException"
            /\ db'.tag = db.tag
            /\ db'.vote = db.vote
            /\ db'.package = db.package
            /\ db'.rating = db.rating
            /\ db'.user \in {db.user, Append(db.user, a)}]_vars

\* C6 witness: add_vote has failed, leaving behind a user who never voted
AddVoteNotFoundWitness ==
    /\ ret.msg = "TaggerapiException"
    /\ \E u \in DOMAIN db.user : \A i \in DOMAIN db.vote : db.vote[i].user_id # u

\* C7: add_rating on an existing package appends exactly one Rating row
\* (package, requester, value) and leaves every earlier Rating row as it was.
AddRatingAppends ==
    [][\A p \in PkgNames, r \in RatingValues, a \in Addrs :
        (HasPackage(db, p) /\ AddRating(p, r, a)) =>
            /\ Len(db'.rating) = Len(db.rating) + 1
            /\ SubSeq(db'.rating, 1, Len(db.rating)) = db.rating
            /\ LET new == db'.rating[Len(db'.rating)]
               IN /\ new.package_id = PkgId(p)
                  /\ new.rating = r
                  /\ db'.user[new.user_id] = a
            /\ ret'.msg = "Rating added"]_vars

\* C7 witness: one user has rated one package twice with different values, and
\* both rows are stored
AddRatingAppendsWitness ==
    /\ ret.msg = "Rating added"
    /\ \E i, j \in DOMAIN db.rating :
          /\ i < j
          /\ db.rating[i].user_id = db.rating[j].user_id
          /\ db.rating[i].package_id = db.rating[j].package_id
          /\ db.rating[i].rating # db.rating[j].rating

\* the packages without a Tag row
Untagged == {p \in db.package : \A t \in DOMAIN db.tag : db.tag[t].package_id # p.id}

\* q is the fraction a / b
IsFraction(q, a, b) == q.den # 0 /\ q.num * b = a * q.den

\* the store {A: 3 tags, B: 0 tags}
ThreeAndNone ==
    /\ Cardinality(db.package) = 2
    /\ Len(db.tag) = 3
    /\ \A t \in DOMAIN db.tag : db.tag[t].package_id = db.tag[1].package_id

\* C8: the summary statistics returns holds the number of packages, the number
\* without tags, the number with tags, and the two averages (tags over all
\* packages, tags over tagged packages), each average 0 when its divisor is 0;
\* for {A: 3 tags, B: 0 tags} it is 2, 1, 1, 3/2 and 3.
StatisticsSummary ==
    ret.msg = "summary" =>
        LET r == ret.summary
            n == Cardinality(db.package)
            z == Cardinality(Untagged)
            w == Cardinality(db.package \ Untagged)
            total == Len(db.tag)
        IN /\ r.total_packages = n
           /\ r.no_tags = z
           /\ r.with_tags = n - z
           /\ r.with_tags = w
           /\ IsFraction(r.tags_per_package, IF n = 0 THEN 0 ELSE total, IF n = 0 THEN 1 ELSE n)
           /\ IsFraction(r.tags_per_package_no_zeroes,
                         IF w = 0 THEN 0 ELSE total, IF w = 0 THEN 1 ELSE w)
           /\ (n = 0 => r.total_packages = 0 /\ r.no_tags = 0 /\ r.with_tags = 0)
           /\ ThreeAndNone =>
                 /\ r.total_packages = 2 /\ r.with_tags = 1 /\ r.no_tags = 1
                 /\ IsFraction(r.tags_per_package, 3, 2)
                 /\ IsFraction(r.tags_per_package_no_zeroes, 3, 1)

\* C8 witness: statistics has run on the store {A: 3 tags, B: 0 tags}
StatisticsSummaryWitness == ret.msg = "summary" /\ ThreeAndNone

AllIdle == \A i \in Sessions : ~Loaded(i)

\* C9: once two calls by different users that ran concurrently on one Tag have
\* both completed, the Tag's counters equal the numbers of its Vote rows of
\* each polarity: no update is lost.
NoLostUpdate == AllIdle => CountersMatchVotes

====
